---------------------------- MODULE Spec2Model ----------------------------
(***************************************************************************)
(* A model of api_yamdb: the confirmation-code sign-up flow                *)
(* (api/views.py confirm_email, get_token), the users resource             *)
(* (UserViewSet), the permission classes of api/permissions.py and the     *)
(* resource view sets they guard (categories, genres, titles, reviews,     *)
(* comments).                                                              *)
(*                                                                         *)
(* Every request handler is one action.  The tables of reviews/models.py   *)
(* are sets of records; columns that no handler branches on (names, texts, *)
(* scores, dates) are not carried.  `resp` records the request served by   *)
(* the last step together with the response the handler returned.          *)
(***************************************************************************)
EXTENDS Integers, FiniteSets, Sequences, Bags, TLC

VARIABLES
    users,       \* table reviews.User: [id, username, email, role, is_staff]
    nextId,      \* next primary key of reviews.User
    pending,     \* table api.EmailAndCode: [username, email, confirm_code, expire_date]
    nextCode,    \* the next value make_random_password returns (codes never repeat)
    now,         \* timezone.now(), in minutes
    tokens,      \* ids of the users an AccessToken was minted for
    redeemed,    \* history: the <<username, code>> pairs get_token returned a token for
    categories,  \* table reviews.Category: slugs
    genres,      \* table reviews.Genre: slugs
    titles,      \* table reviews.Title: ids
    nextTitle,   \* next primary key of reviews.Title
    reviews,     \* table reviews.Review: [id, title, author]; title 0 is NULL
    nextReview,  \* next primary key of reviews.Review
    comments,    \* table reviews.Comment: [id, review, author]
    nextComment, \* next primary key of reviews.Comment
    inflight,    \* bag of ReviewViewSet.create calls between is_valid and the INSERT
    redeeming,   \* bag of get_token calls between the lookups and conf_user.delete()
    resp         \* the request served by the last step and its response

authVars == <<users, nextId, pending, nextCode, now, tokens, redeemed,
              redeeming>>
resVars  == <<categories, genres, titles, nextTitle, reviews, nextReview,
              comments, nextComment, inflight>>
vars     == <<authVars, resVars, resp>>

-----------------------------------------------------------------------------
(* Bounds of the model *)

MaxTime == 5
MaxCodes == 2
MaxUsers == 2
MaxTitles == 1
MaxReviews == 2
MaxComments == 1
MaxInflight == 2

(* Program constants *)

CodeLifetime == 5

USER == "user"
MODERATOR == "moderator"
ADMIN == "admin"
ROLES == {USER, MODERATOR, ADMIN}

None == "none"
Anonymous == 0

Usernames == {"me", "alice", "bob"}
Emails == {"a@x.com", "b@x.com"}
Codes == 1..MaxCodes

Slugs == {"drama"}

SAFE_METHODS == {"GET", "HEAD", "OPTIONS"}


(* Request bodies of the users resource: a body with the role alone (the *)
(* body of a PATCH) or a body with the required fields (POST, PUT).      *)
Blank == [username |-> None, email |-> None, role |-> None]
PatchBodies == {[Blank EXCEPT !.role = r] : r \in ROLES}
FullBodies == [username : Usernames \ {"me"}, email : Emails, role : {None, ADMIN}]
UserData == PatchBodies \cup FullBodies

-----------------------------------------------------------------------------
(* The response record: the request of the last step and what it returned.  *)
(* allowed is the verdict of the view's permission classes; purged is the   *)
(* set of codes deleted by the expiry sweep of an auth call.                *)

NoResp == [op |-> "init", method |-> None, kind |-> None, status |-> 0,
           allowed |-> TRUE, actor |-> Anonymous, username |-> None,
           email |-> None, code |-> 0, mail |-> TRUE, purged |-> {},
           target |-> 0, title |-> 0]

(* 401 for a request without credentials, 403 for a refused account *)
Denied(actor) == IF actor = Anonymous THEN 401 ELSE 403

-----------------------------------------------------------------------------
(* The account directory and the actors *)

UserByName(us, name) == {u \in us : u.username = name}
UserByEmail(us, mail) == {u \in us : u.email = mail}
UserById(us, id) == CHOOSE u \in us : u.id = id

(* request.user: anonymous, or the account a presented token resolves to *)
Actors == {Anonymous} \cup {u.id : u \in {v \in users : v.id \in tokens}}

is_authenticated(actor) == actor # Anonymous

RoleOf(us, actor) == IF actor = Anonymous THEN None ELSE UserById(us, actor).role
IsStaff(us, actor) == IF actor = Anonymous THEN FALSE ELSE UserById(us, actor).is_staff

-----------------------------------------------------------------------------
(* api/permissions.py *)

AdminModifyOrReadOnlyPermission(method, actor) ==
    method \in SAFE_METHODS \/ is_authenticated(actor)

IsAuthenticated(actor) == is_authenticated(actor)

(* a check that lets every request through *)
IsAuthenticatedOrReadOnly_open(method, actor) == TRUE

IsAuthenticatedOrReadOnly(method, actor) ==
    method \in SAFE_METHODS \/ is_authenticated(actor)

(* a check that looks at the role alone *)
IsAdmin_role_only(us, method, actor) ==
    IF method \in SAFE_METHODS THEN TRUE
    ELSE is_authenticated(actor) /\ RoleOf(us, actor) = ADMIN

(* IsAdmin.has_permission; it falls off its end (None, refused) for a *)
(* request without credentials                                         *)
IsAdmin(us, method, actor) ==
    IF method \in SAFE_METHODS THEN TRUE
    ELSE IF is_authenticated(actor)
         THEN IsStaff(us, actor) \/ RoleOf(us, actor) = ADMIN
         ELSE FALSE

(* a check that forgets the moderator *)
ReviewAndComment_no_moderator(us, method, action, actor, obj) ==
    IF method = "POST" \/ action = "create" THEN is_authenticated(actor)
    ELSE IF method \in {"PATCH", "DELETE"}
         THEN actor = obj.author \/ RoleOf(us, actor) = ADMIN
    ELSE IF method \in SAFE_METHODS THEN TRUE
    ELSE FALSE

(* ReviewAndComment.has_object_permission; obj is a review or a comment *)
ReviewAndComment(us, method, action, actor, obj) ==
    IF method = "POST" \/ action = "create" THEN is_authenticated(actor)
    ELSE IF method \in {"PATCH", "DELETE"}
         THEN \/ actor = obj.author
              \/ RoleOf(us, actor) = ADMIN
              \/ RoleOf(us, actor) = MODERATOR
    ELSE IF method \in SAFE_METHODS THEN TRUE
    ELSE FALSE

-----------------------------------------------------------------------------
(* The code ledger *)

(* a sweep that spares the row expiring at this very instant *)
ExpiredRows_strict(rows, t) == {p \in rows : p.expire_date < t}

(* EmailAndCode.objects.filter(expire_date__lte=timezone.now()) *)
ExpiredRows(rows, t) == {p \in rows : p.expire_date <= t}

(* ... .delete(): the rows left by the sweep *)
Sweep(rows, t) == rows \ ExpiredRows(rows, t)

(* what the sweep of an auth call deletes, as <<username, code>> pairs *)
Purged(rows, t) == {<<p.username, p.confirm_code>> : p \in ExpiredRows(rows, t)}

MatchingRows(rows, username, code) ==
    {p \in rows : p.username = username /\ p.confirm_code = code}

(* a validator that does not reserve "me" *)
ConfirmEmailSerializer_validate_username_me_allowed(us, value) ==
    UserByName(us, value) = {}

ConfirmEmailSerializer_validate_username(us, value) ==
    ~(value = "me" \/ UserByName(us, value) # {})

ConfirmEmailSerializer_validate_email(rows, us, value) ==
    ~({p \in rows : p.email = value} # {} \/ UserByEmail(us, value) # {})

(* ConfirmEmailSerializer.update: the row keeps its username *)
ConfirmEmailSerializer_update(rows, instance, code, expire) ==
    (rows \ {instance}) \cup
        {[instance EXCEPT !.confirm_code = code, !.expire_date = expire]}

(* ConfirmEmailSerializer.create: get by email, update it, else insert *)
ConfirmEmailSerializer_create(rows, username, email, code, expire) ==
    IF \E p \in rows : p.email = email
    THEN ConfirmEmailSerializer_update(
             rows, CHOOSE p \in rows : p.email = email, code, expire)
    ELSE rows \cup {[username |-> username, email |-> email,
                     confirm_code |-> code, expire_date |-> expire]}

(* User.objects.create_user(username=, email=): role takes the default USER *)
create_user(us, id, username, email) ==
    us \cup {[id |-> id, username |-> username, email |-> email,
              role |-> USER, is_staff |-> FALSE]}

(* timezone.now() + dt.timedelta(minutes=5) *)
ExpireDate(t) == t + CodeLifetime

(* POST /auth/signup/.  send_mail runs between create_user and               *)
(* serializer.save and raises when the mail backend fails (mail_ok = FALSE): *)
(* the request ends in a 500 with the account stored and no code saved.      *)
confirm_email(username, email, mail_ok) ==
    LET live == Sweep(pending, now)
        valid == /\ ConfirmEmailSerializer_validate_username(users, username)
                 /\ ConfirmEmailSerializer_validate_email(live, users, email)
        saved == ConfirmEmailSerializer_create(
                     live, username, email, nextCode, ExpireDate(now))
        r == [NoResp EXCEPT !.op = "signup", !.method = "POST", !.kind = "auth",
                            !.username = username, !.email = email,
                            !.mail = mail_ok,
                            !.purged = Purged(pending, now)]
    IN  /\ valid => (nextCode <= MaxCodes /\ nextId <= MaxUsers)
        /\ IF ~valid
           THEN /\ pending' = live
                /\ resp' = [r EXCEPT !.status = 400]
                /\ UNCHANGED <<users, nextId, nextCode>>
           ELSE /\ users' = create_user(users, nextId, username, email)
                /\ nextId' = nextId + 1
                /\ nextCode' = nextCode + 1
                /\ IF mail_ok
                   THEN /\ pending' = saved
                        /\ resp' = [r EXCEPT !.status = 200, !.code = nextCode]
                   ELSE /\ pending' = live
                        /\ resp' = [r EXCEPT !.status = 500]
        /\ UNCHANGED <<now, tokens, redeemed, redeeming, resVars>>

(* GetTokenSerializer.validate_username raises Http404 *)
GetTokenSerializer_validate_username(us, value) == UserByName(us, value) # {}

GetTokenSerializer_validate(rows, username, code) ==
    MatchingRows(rows, username, code) # {}

(* a redemption that leaves the row in the table *)
delete_row_kept(rows, row) == rows

(* conf_user.delete() *)
delete_row(rows, row) == rows \ {row}

(* POST /auth/token/ *)
get_token(username, code) ==
    LET live == Sweep(pending, now)
        rows == MatchingRows(live, username, code)
        r == [NoResp EXCEPT !.op = "token", !.method = "POST", !.kind = "auth",
                            !.username = username, !.code = code,
                            !.purged = Purged(pending, now)]
    IN  /\ IF ~GetTokenSerializer_validate_username(users, username)
           THEN /\ pending' = live
                /\ resp' = [r EXCEPT !.status = 404]
                /\ UNCHANGED <<tokens, redeemed>>
           ELSE IF ~GetTokenSerializer_validate(live, username, code)
           THEN /\ pending' = live
                /\ resp' = [r EXCEPT !.status = 400]
                /\ UNCHANGED <<tokens, redeemed>>
           ELSE IF Cardinality(rows) > 1
           THEN \* get_object_or_404 raises MultipleObjectsReturned
                /\ pending' = live
                /\ resp' = [r EXCEPT !.status = 500]
                /\ UNCHANGED <<tokens, redeemed>>
           ELSE /\ pending' = delete_row(live, CHOOSE p \in rows : TRUE)
                /\ tokens' = tokens \cup {u.id : u \in UserByName(users, username)}
                /\ redeemed' = redeemed \cup {<<username, code>>}
                /\ resp' = [r EXCEPT !.status = 200]
        /\ UNCHANGED <<users, nextId, nextCode, now, redeeming, resVars>>

(* get_token up to conf_user.delete(): the sweep, is_valid and the two     *)
(* get_object_or_404 lookups.  The view opens no transaction and takes no *)
(* lock, so another request may be served before the call goes on.        *)
get_token_begin(username, code) ==
    LET live == Sweep(pending, now)
        rows == MatchingRows(live, username, code)
        r == [NoResp EXCEPT !.op = "token_begin", !.method = "POST",
                            !.kind = "auth", !.username = username,
                            !.code = code, !.purged = Purged(pending, now)]
        passed == /\ GetTokenSerializer_validate_username(users, username)
                  /\ GetTokenSerializer_validate(live, username, code)
                  /\ Cardinality(rows) = 1
    IN  /\ passed => BagCardinality(redeeming) < MaxInflight
        /\ pending' = live
        /\ IF ~GetTokenSerializer_validate_username(users, username)
           THEN /\ resp' = [r EXCEPT !.status = 404]
                /\ UNCHANGED redeeming
           ELSE IF ~GetTokenSerializer_validate(live, username, code)
           THEN /\ resp' = [r EXCEPT !.status = 400]
                /\ UNCHANGED redeeming
           ELSE IF Cardinality(rows) > 1
           THEN /\ resp' = [r EXCEPT !.status = 500]
                /\ UNCHANGED redeeming
           ELSE /\ resp' = r
                /\ redeeming' = redeeming (+) SetToBag(
                       {[username |-> username, code |-> code,
                         conf_user |-> CHOOSE p \in rows : TRUE,
                         user |-> (CHOOSE u \in UserByName(users, username) : TRUE).id]})
        /\ UNCHANGED <<users, nextId, nextCode, now, tokens, redeemed, resVars>>

(* the rest of get_token: conf_user.delete(), which deletes by primary key *)
(* and passes when the row is already gone, then AccessToken.for_user and  *)
(* the 200 response                                                        *)
get_token_end(q) ==
    /\ BagIn(q, redeeming)
    /\ redeeming' = redeeming (-) SetToBag({q})
    /\ pending' = delete_row(pending, q.conf_user)
    /\ tokens' = tokens \cup {q.user}
    /\ redeemed' = redeemed \cup {<<q.username, q.code>>}
    /\ resp' = [NoResp EXCEPT !.op = "token_end", !.method = "POST",
                              !.kind = "auth", !.username = q.username,
                              !.code = q.code, !.status = 200]
    /\ UNCHANGED <<users, nextId, nextCode, now, resVars>>

(* One minute passes *)
Tick ==
    /\ now < MaxTime
    /\ now' = now + 1
    /\ resp' = [NoResp EXCEPT !.op = "tick"]
    /\ UNCHANGED <<users, nextId, pending, nextCode, tokens, redeemed, redeeming, resVars>>

-----------------------------------------------------------------------------
(* The users resource: UserViewSet, lookup_field = 'username' *)

(* UserSerializer.is_valid: username and email are required unless partial, *)
(* validate_username and validate_email refuse a value already stored.      *)
UserSerializer_is_valid(us, data, partial) ==
    /\ ~partial => (data.username # None /\ data.email # None)
    /\ data.username # None => UserByName(us, data.username) = {}
    /\ data.email # None => UserByEmail(us, data.email) = {}

(* ModelSerializer.update: every validated field is set on the instance *)
UserSerializer_update(instance, data) ==
    [instance EXCEPT
        !.username = IF data.username # None THEN data.username ELSE @,
        !.email = IF data.email # None THEN data.email ELSE @,
        !.role = IF data.role # None THEN data.role ELSE @]

(* UserViewSet.perform_create: role=UserRole.USER when the body has no role *)
perform_create(us, id, data) ==
    us \cup {[id |-> id, username |-> data.username, email |-> data.email,
              role |-> IF data.role = None THEN USER ELSE data.role,
              is_staff |-> FALSE]}

(* Review.author and Comment.author are on_delete=DO_NOTHING: the database *)
(* refuses to delete an account that rows still reference.                 *)
Referenced(id) ==
    \/ \E r \in reviews : r.author = id
    \/ \E c \in comments : c.author = id

UserReq(op, method, actor, username) ==
    [NoResp EXCEPT !.op = op, !.method = method, !.kind = "user",
                   !.actor = actor, !.username = username]

(* GET /users/ *)
users_list(actor) ==
    LET allowed == AdminModifyOrReadOnlyPermission("GET", actor)
        r == [UserReq("users_list", "GET", actor, None) EXCEPT !.allowed = allowed]
    IN  /\ resp' = [r EXCEPT !.status = IF allowed THEN 200 ELSE Denied(actor)]
        /\ UNCHANGED <<authVars, resVars>>

(* GET /users/{username}/ *)
users_retrieve(actor, username) ==
    LET allowed == AdminModifyOrReadOnlyPermission("GET", actor)
        found == UserByName(users, username)
        r == [UserReq("users_retrieve", "GET", actor, username)
                  EXCEPT !.allowed = allowed]
    IN  /\ resp' = [r EXCEPT !.status = IF ~allowed THEN Denied(actor)
                                        ELSE IF found = {} THEN 404 ELSE 200]
        /\ UNCHANGED <<authVars, resVars>>

(* POST /users/ *)
users_create(actor, data) ==
    LET allowed == AdminModifyOrReadOnlyPermission("POST", actor)
        valid == UserSerializer_is_valid(users, data, FALSE)
        r == [UserReq("users_create", "POST", actor, data.username)
                  EXCEPT !.allowed = allowed]
    IN  /\ (allowed /\ valid) => nextId <= MaxUsers
        /\ IF ~allowed
           THEN /\ resp' = [r EXCEPT !.status = Denied(actor)]
                /\ UNCHANGED <<users, nextId>>
           ELSE IF ~valid
           THEN /\ resp' = [r EXCEPT !.status = 400]
                /\ UNCHANGED <<users, nextId>>
           ELSE /\ users' = perform_create(users, nextId, data)
                /\ nextId' = nextId + 1
                /\ resp' = [r EXCEPT !.status = 201, !.target = nextId]
        /\ UNCHANGED <<pending, nextCode, now, tokens, redeemed, redeeming, resVars>>

(* PUT and PATCH /users/{username}/ *)
users_update(actor, method, username, data) ==
    LET allowed == AdminModifyOrReadOnlyPermission(method, actor)
        found == UserByName(users, username)
        instance == CHOOSE u \in found : TRUE
        valid == UserSerializer_is_valid(users, data, method = "PATCH")
        r == [UserReq("users_update", method, actor, username)
                  EXCEPT !.allowed = allowed]
    IN  /\ IF ~allowed
           THEN /\ resp' = [r EXCEPT !.status = Denied(actor)]
                /\ UNCHANGED users
           ELSE IF found = {}
           THEN /\ resp' = [r EXCEPT !.status = 404]
                /\ UNCHANGED users
           ELSE IF ~valid
           THEN /\ resp' = [r EXCEPT !.status = 400, !.target = instance.id]
                /\ UNCHANGED users
           ELSE /\ users' = (users \ {instance})
                                \cup {UserSerializer_update(instance, data)}
                /\ resp' = [r EXCEPT !.status = 200, !.target = instance.id]
        /\ UNCHANGED <<nextId, pending, nextCode, now, tokens, redeemed, redeeming, resVars>>

(* DELETE /users/{username}/ *)
users_destroy(actor, username) ==
    LET allowed == AdminModifyOrReadOnlyPermission("DELETE", actor)
        found == UserByName(users, username)
        instance == CHOOSE u \in found : TRUE
        r == [UserReq("users_destroy", "DELETE", actor, username)
                  EXCEPT !.allowed = allowed]
    IN  /\ IF ~allowed
           THEN /\ resp' = [r EXCEPT !.status = Denied(actor)]
                /\ UNCHANGED users
           ELSE IF found = {}
           THEN /\ resp' = [r EXCEPT !.status = 404]
                /\ UNCHANGED users
           ELSE IF Referenced(instance.id)
           THEN /\ resp' = [r EXCEPT !.status = 500, !.target = instance.id]
                /\ UNCHANGED users
           ELSE /\ users' = users \ {instance}
                /\ resp' = [r EXCEPT !.status = 204, !.target = instance.id]
        /\ UNCHANGED <<nextId, pending, nextCode, now, tokens, redeemed, redeeming, resVars>>

(* GET and PATCH /users/me/, permission_classes=[IsAuthenticated];          *)
(* the PATCH saves with role=user.role, whatever role the body carries.     *)
me(actor, method, data) ==
    LET allowed == IsAuthenticated(actor)
        user == UserById(users, actor)
        valid == UserSerializer_is_valid(users, data, TRUE)
        r == [UserReq("me", method, actor, None) EXCEPT !.allowed = allowed]
    IN  /\ IF ~allowed
           THEN /\ resp' = [r EXCEPT !.status = Denied(actor)]
                /\ UNCHANGED users
           ELSE IF method = "GET"
           THEN /\ resp' = [r EXCEPT !.status = 200, !.target = actor]
                /\ UNCHANGED users
           ELSE IF ~valid
           THEN /\ resp' = [r EXCEPT !.status = 400, !.target = actor]
                /\ UNCHANGED users
           ELSE /\ users' = (users \ {user}) \cup
                    {UserSerializer_update(user, [data EXCEPT !.role = user.role])}
                /\ resp' = [r EXCEPT !.status = 200, !.target = actor]
        /\ UNCHANGED <<nextId, pending, nextCode, now, tokens, redeemed, redeeming, resVars>>

-----------------------------------------------------------------------------
(* The sign-up flow and the users resource, from a fresh deployment *)

(* The account made at deployment (createsuperuser, role set to admin), *)
(* holding an access token.                                             *)
Root == [id |-> 1, username |-> "root", email |-> "root@x.com",
         role |-> ADMIN, is_staff |-> TRUE]

Init ==
    /\ users = {Root}
    /\ nextId = 2
    /\ pending = {}
    /\ nextCode = 1
    /\ now = 0
    /\ tokens = {Root.id}
    /\ redeemed = {}
    /\ redeeming = EmptyBag
    /\ categories = {}
    /\ genres = {}
    /\ titles = {}
    /\ nextTitle = 1
    /\ reviews = {}
    /\ nextReview = 1
    /\ comments = {}
    /\ nextComment = 1
    /\ inflight = EmptyBag
    /\ resp = NoResp

(* /users/me/ is routed to the me action, never to a detail view *)
Lookups == Usernames \ {"me"}

(* The sign-up flow over time: codes are issued, expire and are redeemed, *)
(* and accounts leave the directory.                                     *)
Next ==
    \/ \E u \in Usernames, e \in Emails, m \in BOOLEAN : confirm_email(u, e, m)
    \/ \E u \in Usernames, c \in Codes : get_token(u, c)
    \/ Tick
    \/ \E a \in Actors, u \in Lookups : users_destroy(a, u)

Spec == Init /\ [][Next]_vars

(* The users resource, with the sign-up flow that makes its actors *)
NextUsers ==
    \/ \E u \in Usernames, e \in Emails : confirm_email(u, e, TRUE)
    \/ \E u \in Usernames, c \in Codes : get_token(u, c)
    \/ \E a \in Actors : users_list(a)
    \/ \E a \in Actors, u \in Lookups : users_retrieve(a, u)
    \/ \E a \in Actors, d \in FullBodies : users_create(a, d)
    \/ \E a \in Actors, u \in Lookups, d \in FullBodies : users_update(a, "PUT", u, d)
    \/ \E a \in Actors, u \in Lookups, d \in PatchBodies : users_update(a, "PATCH", u, d)
    \/ \E a \in Actors, u \in Lookups : users_destroy(a, u)
    \/ \E a \in Actors : me(a, "GET", Blank)
    \/ \E a \in Actors, d \in PatchBodies : me(a, "PATCH", d)

SpecUsers == Init /\ [][NextUsers]_vars

(* Redemption under concurrency: calls of get_token overlap with each *)
(* other and with sign-ups while time passes                          *)
NextRedeem ==
    \/ \E u \in Usernames, e \in Emails : confirm_email(u, e, TRUE)
    \/ \E u \in Usernames, c \in Codes : get_token_begin(u, c)
    \/ \E q \in BagToSet(redeeming) : get_token_end(q)
    \/ Tick

SpecRedeem == Init /\ [][NextRedeem]_vars

-----------------------------------------------------------------------------
(* Properties of the sign-up flow, checked under Spec.  Every step sets     *)
(* resp to the request it served, so resp' names the request of a step.     *)

(* C1 (the claim as stated): a sign-up request for an email whose code is   *)
(* still pending and unexpired, by the same username and with the mail      *)
(* delivered, is accepted and puts a new code in place of the old one.      *)
C1_ResignupReplacesCode ==
    [][\A p \in pending :
          (/\ resp'.op = "signup"
           /\ resp'.mail
           /\ resp'.username = p.username
           /\ resp'.email = p.email
           /\ now < p.expire_date)
          => /\ resp'.status = 200
             /\ p \notin pending'
             /\ \E q \in pending' : /\ q.email = p.email
                                    /\ q.confirm_code = resp'.code
                                    /\ q.confirm_code # p.confirm_code]_vars

C3_ExpiredCodeNotRedeemable ==
    [][\A p \in pending :
          (/\ resp'.op = "token"
           /\ resp'.username = p.username
           /\ resp'.code = p.confirm_code
           /\ now >= p.expire_date)
          => /\ resp'.status \in {400, 404}
             /\ tokens' = tokens
             /\ redeemed' = redeemed]_vars

(* the code presented was still stored, expired, and this call swept it *)
C3_Witness ==
    /\ resp.op = "token"
    /\ <<resp.username, resp.code>> \in resp.purged
    /\ resp.status = 400

(* C10 (the claim as stated): a sign-up request whose preconditions hold    *)
(* returns 200 and leaves both the account and a pending row for it,        *)
(* whether or not the mail was delivered.                                   *)
C10_MailFailureNotSurfaced ==
    [][(/\ resp'.op = "signup"
        /\ ConfirmEmailSerializer_validate_username(users, resp'.username)
        /\ ConfirmEmailSerializer_validate_email(
               Sweep(pending, now), users, resp'.email))
       => /\ resp'.status = 200
          /\ UserByName(users', resp'.username) # {}
          /\ \E q \in pending' : /\ q.username = resp'.username
                                 /\ q.email = resp'.email
                                 /\ q.confirm_code = resp'.code]_vars

(* C11: a sign-up request whose username is "me", or whose username or      *)
(* email belongs to an account, is answered 400; it stores no account and   *)
(* issues no code, and it leaves the pending rows as they were but for the  *)
(* expired ones, which it deletes.  Checked under Spec.                     *)
C11_SignupRejected ==
    [][(/\ resp'.op = "signup"
        /\ \/ resp'.username = "me"
           \/ UserByName(users, resp'.username) # {}
           \/ UserByEmail(users, resp'.email) # {})
       => /\ resp'.status = 400
          /\ users' = users
          /\ nextId' = nextId
          /\ nextCode' = nextCode
          /\ tokens' = tokens
          /\ pending' \subseteq pending
          /\ \A p \in pending \ pending' : p.expire_date <= now]_vars

(* a fresh username was refused because its email belongs to an account *)
(* whose code is no longer pending                                      *)
C11_Witness ==
    /\ resp.op = "signup"
    /\ resp.status = 400
    /\ resp.username # "me"
    /\ UserByName(users, resp.username) = {}
    /\ UserByEmail(users, resp.email) # {}
    /\ ~\E p \in pending : p.email = resp.email

(* C12 (the claim as stated): of the calls of get_token that present one   *)
(* username and code, overlapping or not, at most one returns a token: a   *)
(* call returns 200 only for a pair no call has returned a token for, and  *)
(* only while the row is still stored.  Checked under SpecRedeem.          *)
C12_ConcurrentRedeemOnce ==
    [][(resp'.op = "token_end" /\ resp'.status = 200)
       => /\ <<resp'.username, resp'.code>> \notin redeemed
          /\ MatchingRows(pending, resp'.username, resp'.code) # {}]_vars

-----------------------------------------------------------------------------
(* Properties of the users resource, checked under SpecUsers *)

(* C5 (the claim as stated): an account made by sign-up has role user, and  *)
(* a step changes the role of an account only when the actor of its         *)
(* request has role admin.                                                  *)
C5_RoleChangedOnlyByAdmin ==
    [][/\ \A v \in users' :
             (resp'.op = "signup" /\ v.id \notin {u.id : u \in users})
             => v.role = USER
       /\ \A u \in users, v \in users' :
             (u.id = v.id /\ u.role # v.role)
             => RoleOf(users, resp'.actor) = ADMIN]_vars

(* C9 (the claim as stated): every request on the users resource other than *)
(* the self-profile action is refused by the permission check.              *)
C9_UsersResourceDenied ==
    (resp.kind = "user" /\ resp.op # "me") => ~resp.allowed

-----------------------------------------------------------------------------
(* The resource view sets of api/views.py.  DRF runs check_permissions,     *)
(* then the handler; a detail handler fetches the object (404) and runs     *)
(* check_object_permissions on it (403).                                    *)

ResMethods == {"GET", "POST", "PUT", "PATCH", "DELETE"}
DetailMethods == {"GET", "PUT", "PATCH", "DELETE"}
TitleIds == 1..MaxTitles
ReviewIds == 1..MaxReviews
CommentIds == 1..MaxComments

ResReq(op, method, kind, actor) ==
    [NoResp EXCEPT !.op = op, !.method = method, !.kind = kind, !.actor = actor]

(* CategoryViewSet: list, create, destroy; permission_classes = [IsAdmin] *)
CategoryViewSet(actor, method, slug) ==
    LET allowed == IsAdmin(users, method, actor)
        r == [ResReq("category", method, "category", actor) EXCEPT !.allowed = allowed]
    IN  /\ IF ~allowed
           THEN /\ resp' = [r EXCEPT !.status = Denied(actor)]
                /\ UNCHANGED categories
           ELSE IF method = "GET"
           THEN /\ resp' = [r EXCEPT !.status = 200]
                /\ UNCHANGED categories
           ELSE IF method = "POST"
           THEN IF slug \in categories
                THEN /\ resp' = [r EXCEPT !.status = 400]
                     /\ UNCHANGED categories
                ELSE /\ resp' = [r EXCEPT !.status = 201]
                     /\ categories' = categories \cup {slug}
           ELSE IF method = "DELETE"
           THEN IF slug \notin categories
                THEN /\ resp' = [r EXCEPT !.status = 404]
                     /\ UNCHANGED categories
                ELSE /\ resp' = [r EXCEPT !.status = 204]
                     /\ categories' = categories \ {slug}
           ELSE /\ resp' = [r EXCEPT !.status = 405]
                /\ UNCHANGED categories
        /\ UNCHANGED <<authVars, genres, titles, nextTitle, reviews, nextReview,
                       comments, nextComment, inflight>>

(* GenreViewSet: list, create, destroy; permission_classes = [IsAdmin] *)
GenreViewSet(actor, method, slug) ==
    LET allowed == IsAdmin(users, method, actor)
        r == [ResReq("genre", method, "genre", actor) EXCEPT !.allowed = allowed]
    IN  /\ IF ~allowed
           THEN /\ resp' = [r EXCEPT !.status = Denied(actor)]
                /\ UNCHANGED genres
           ELSE IF method = "GET"
           THEN /\ resp' = [r EXCEPT !.status = 200]
                /\ UNCHANGED genres
           ELSE IF method = "POST"
           THEN IF slug \in genres
                THEN /\ resp' = [r EXCEPT !.status = 400]
                     /\ UNCHANGED genres
                ELSE /\ resp' = [r EXCEPT !.status = 201]
                     /\ genres' = genres \cup {slug}
           ELSE IF method = "DELETE"
           THEN IF slug \notin genres
                THEN /\ resp' = [r EXCEPT !.status = 404]
                     /\ UNCHANGED genres
                ELSE /\ resp' = [r EXCEPT !.status = 204]
                     /\ genres' = genres \ {slug}
           ELSE /\ resp' = [r EXCEPT !.status = 405]
                /\ UNCHANGED genres
        /\ UNCHANGED <<authVars, categories, titles, nextTitle, reviews, nextReview,
                       comments, nextComment, inflight>>

(* Review.title is on_delete=SET_NULL *)
SetNull(rs, id) ==
    {IF r.title = id THEN [r EXCEPT !.title = 0] ELSE r : r \in rs}

(* TitleViewSet, a ModelViewSet; permission_classes = [IsAdmin].  The body  *)
(* of a POST or PUT names a category and a genre by slug                    *)
(* (WriteTitleSerializer), which must be stored.                            *)
TitleViewSet(actor, method, id, slug) ==
    LET allowed == IsAdmin(users, method, actor)
        valid == slug \in categories /\ slug \in genres
        r == [ResReq("title", method, "title", actor)
                  EXCEPT !.allowed = allowed, !.target = id]
    IN  /\ (allowed /\ method = "POST" /\ valid) => nextTitle <= MaxTitles
        /\ IF ~allowed
           THEN /\ resp' = [r EXCEPT !.status = Denied(actor)]
                /\ UNCHANGED <<titles, nextTitle, reviews>>
           ELSE IF method = "POST"
           THEN IF ~valid
                THEN /\ resp' = [r EXCEPT !.status = 400, !.target = 0]
                     /\ UNCHANGED <<titles, nextTitle, reviews>>
                ELSE /\ resp' = [r EXCEPT !.status = 201, !.target = nextTitle]
                     /\ titles' = titles \cup {nextTitle}
                     /\ nextTitle' = nextTitle + 1
                     /\ UNCHANGED reviews
           ELSE IF id \notin titles
           THEN /\ resp' = [r EXCEPT !.status = 404]
                /\ UNCHANGED <<titles, nextTitle, reviews>>
           ELSE IF method = "DELETE"
           THEN /\ resp' = [r EXCEPT !.status = 204]
                /\ titles' = titles \ {id}
                /\ reviews' = SetNull(reviews, id)
                /\ UNCHANGED nextTitle
           ELSE /\ resp' = [r EXCEPT !.status =
                               IF method = "PUT" /\ ~valid THEN 400 ELSE 200]
                /\ UNCHANGED <<titles, nextTitle, reviews>>
        /\ UNCHANGED <<authVars, categories, genres, nextReview,
                       comments, nextComment, inflight>>

(* a table without the constraint *)
unique_review_absent(rs, author, title) == TRUE

(* Review.Meta: UniqueConstraint(fields=['author', 'title']), checked by the *)
(* database as part of the INSERT                                            *)
unique_review(rs, author, title) ==
    ~\E r \in rs : r.author = author /\ r.title = title

(* title.reviews.all() / get_object: the review of that id under that title *)
ReviewsOf(title_id, review_id) ==
    {r \in reviews : r.id = review_id /\ r.title = title_id}

(* review.comments.all() / get_object *)
CommentsOf(review_id, comment_id) ==
    {c \in comments : c.id = comment_id /\ c.review = review_id}

(* GET /titles/{title_id}/reviews/ *)
review_list(actor, title_id) ==
    LET allowed == IsAuthenticatedOrReadOnly("GET", actor)
        r == [ResReq("review_list", "GET", "review", actor)
                  EXCEPT !.allowed = allowed, !.title = title_id]
    IN  /\ resp' = [r EXCEPT !.status = IF ~allowed THEN Denied(actor)
                                        ELSE IF title_id \notin titles THEN 404
                                        ELSE 200]
        /\ UNCHANGED <<authVars, resVars>>

(* ReviewViewSet.create up to perform_create: the permission check and *)
(* serializer.is_valid; the request is then in flight                  *)
review_create(actor, title_id) ==
    LET allowed == IsAuthenticatedOrReadOnly("POST", actor)
        r == [ResReq("review_create", "POST", "review", actor)
                  EXCEPT !.allowed = allowed, !.title = title_id]
    IN  /\ allowed => BagCardinality(inflight) < MaxInflight
        /\ IF ~allowed
           THEN /\ resp' = [r EXCEPT !.status = Denied(actor)]
                /\ UNCHANGED inflight
           ELSE /\ resp' = r
                /\ inflight' = inflight (+)
                       SetToBag({[author |-> actor, title |-> title_id]})
        /\ UNCHANGED <<authVars, categories, genres, titles, nextTitle, reviews,
                       nextReview, comments, nextComment>>

(* ReviewViewSet.perform_create and the rest of create: the title and the  *)
(* author are fetched (404), the row is inserted, an IntegrityError of the *)
(* insert is answered 400                                                  *)
review_perform_create(q) ==
    LET r == [ResReq("review_perform_create", "POST", "review", q.author)
                  EXCEPT !.title = q.title]
        found == q.title \in titles /\ \E u \in users : u.id = q.author
        free == unique_review(reviews, q.author, q.title)
    IN  /\ BagIn(q, inflight)
        /\ (found /\ free) => nextReview <= MaxReviews
        /\ inflight' = inflight (-) SetToBag({q})
        /\ IF ~found
           THEN /\ resp' = [r EXCEPT !.status = 404]
                /\ UNCHANGED <<reviews, nextReview>>
           ELSE IF ~free
           THEN /\ resp' = [r EXCEPT !.status = 400]
                /\ UNCHANGED <<reviews, nextReview>>
           ELSE /\ resp' = [r EXCEPT !.status = 201, !.target = nextReview]
                /\ reviews' = reviews \cup
                       {[id |-> nextReview, title |-> q.title, author |-> q.author]}
                /\ nextReview' = nextReview + 1
        /\ UNCHANGED <<authVars, categories, genres, titles, nextTitle,
                       comments, nextComment>>

(* GET, PUT, PATCH, DELETE /titles/{title_id}/reviews/{review_id}/ *)
review_detail(actor, method, title_id, review_id) ==
    LET view_ok == IsAuthenticatedOrReadOnly(method, actor)
        found == IF title_id \in titles THEN ReviewsOf(title_id, review_id) ELSE {}
        obj == CHOOSE x \in found : TRUE
        obj_ok == ReviewAndComment(users, method, "detail", actor, obj)
        r == [ResReq("review_detail", method, "review", actor)
                  EXCEPT !.title = title_id, !.target = review_id]
    IN  /\ IF ~view_ok
           THEN /\ resp' = [r EXCEPT !.status = Denied(actor), !.allowed = FALSE]
                /\ UNCHANGED reviews
           ELSE IF found = {}
           THEN /\ resp' = [r EXCEPT !.status = 404]
                /\ UNCHANGED reviews
           ELSE IF ~obj_ok
           THEN /\ resp' = [r EXCEPT !.status = Denied(actor), !.allowed = FALSE]
                /\ UNCHANGED reviews
           ELSE IF method = "DELETE"
           THEN IF \E c \in comments : c.review = obj.id
                THEN \* Comment.review_id is on_delete=DO_NOTHING
                     /\ resp' = [r EXCEPT !.status = 500]
                     /\ UNCHANGED reviews
                ELSE /\ resp' = [r EXCEPT !.status = 204]
                     /\ reviews' = reviews \ {obj}
           ELSE /\ resp' = [r EXCEPT !.status = 200]
                /\ UNCHANGED reviews
        /\ UNCHANGED <<authVars, categories, genres, titles, nextTitle, nextReview,
                       comments, nextComment, inflight>>

(* the review a comment route names: Review(id=review_id, title=title.id) *)
ParentReview(title_id, review_id) ==
    IF title_id \in titles THEN ReviewsOf(title_id, review_id) ELSE {}

(* GET /titles/{title_id}/reviews/{review_id}/comments/ *)
comment_list(actor, title_id, review_id) ==
    LET allowed == IsAuthenticatedOrReadOnly("GET", actor)
        r == [ResReq("comment_list", "GET", "comment", actor)
                  EXCEPT !.allowed = allowed, !.title = title_id]
    IN  /\ resp' = [r EXCEPT !.status =
                        IF ~allowed THEN Denied(actor)
                        ELSE IF ParentReview(title_id, review_id) = {} THEN 404
                        ELSE 200]
        /\ UNCHANGED <<authVars, resVars>>

(* POST .../comments/: CommentViewSet.perform_create fetches the review by *)
(* id alone                                                                *)
comment_create(actor, title_id, review_id) ==
    LET allowed == IsAuthenticatedOrReadOnly("POST", actor)
        found == \E x \in reviews : x.id = review_id
        r == [ResReq("comment_create", "POST", "comment", actor)
                  EXCEPT !.allowed = allowed, !.title = title_id]
    IN  /\ (allowed /\ found) => nextComment <= MaxComments
        /\ IF ~allowed
           THEN /\ resp' = [r EXCEPT !.status = Denied(actor)]
                /\ UNCHANGED <<comments, nextComment>>
           ELSE IF ~found
           THEN /\ resp' = [r EXCEPT !.status = 404]
                /\ UNCHANGED <<comments, nextComment>>
           ELSE /\ resp' = [r EXCEPT !.status = 201, !.target = nextComment]
                /\ comments' = comments \cup
                       {[id |-> nextComment, review |-> review_id, author |-> actor]}
                /\ nextComment' = nextComment + 1
        /\ UNCHANGED <<authVars, categories, genres, titles, nextTitle, reviews,
                       nextReview, inflight>>

(* GET, PUT, PATCH, DELETE .../comments/{comment_id}/ *)
comment_detail(actor, method, title_id, review_id, comment_id) ==
    LET view_ok == IsAuthenticatedOrReadOnly(method, actor)
        found == IF ParentReview(title_id, review_id) = {} THEN {}
                 ELSE CommentsOf(review_id, comment_id)
        obj == CHOOSE x \in found : TRUE
        obj_ok == ReviewAndComment(users, method, "detail", actor, obj)
        r == [ResReq("comment_detail", method, "comment", actor)
                  EXCEPT !.title = title_id, !.target = comment_id]
    IN  /\ IF ~view_ok
           THEN /\ resp' = [r EXCEPT !.status = Denied(actor), !.allowed = FALSE]
                /\ UNCHANGED comments
           ELSE IF found = {}
           THEN /\ resp' = [r EXCEPT !.status = 404]
                /\ UNCHANGED comments
           ELSE IF ~obj_ok
           THEN /\ resp' = [r EXCEPT !.status = Denied(actor), !.allowed = FALSE]
                /\ UNCHANGED comments
           ELSE IF method = "DELETE"
           THEN /\ resp' = [r EXCEPT !.status = 204]
                /\ comments' = comments \ {obj}
           ELSE /\ resp' = [r EXCEPT !.status = 200]
                /\ UNCHANGED comments
        /\ UNCHANGED <<authVars, categories, genres, titles, nextTitle, reviews,
                       nextReview, nextComment, inflight>>

-----------------------------------------------------------------------------
(* The resources, served to a directory with an account of every kind *)

Adam  == [id |-> 1, username |-> "adam", email |-> "adam@x.com",
          role |-> ADMIN, is_staff |-> FALSE]
Stan  == [id |-> 2, username |-> "stan", email |-> "stan@x.com",
          role |-> USER, is_staff |-> TRUE]
Mod   == [id |-> 3, username |-> "mod", email |-> "mod@x.com",
          role |-> MODERATOR, is_staff |-> FALSE]
Alice == [id |-> 4, username |-> "alice", email |-> "a@x.com",
          role |-> USER, is_staff |-> FALSE]

Directory ==
    /\ users = {Adam, Stan, Mod, Alice}
    /\ nextId = 5
    /\ pending = {}
    /\ nextCode = 1
    /\ now = 0
    /\ tokens = {Adam.id, Stan.id, Mod.id, Alice.id}
    /\ redeemed = {}
    /\ redeeming = EmptyBag
    /\ resp = NoResp

(* The catalogue: categories, genres and titles, from an empty catalogue *)
InitCatalog ==
    /\ Directory
    /\ categories = {}
    /\ genres = {}
    /\ titles = {}
    /\ nextTitle = 1
    /\ reviews = {}
    /\ nextReview = 1
    /\ comments = {}
    /\ nextComment = 1
    /\ inflight = EmptyBag

NextCatalog ==
    \/ \E a \in Actors, m \in ResMethods, s \in Slugs : CategoryViewSet(a, m, s)
    \/ \E a \in Actors, m \in ResMethods, s \in Slugs : GenreViewSet(a, m, s)
    \/ \E a \in Actors, m \in ResMethods, t \in TitleIds, s \in Slugs :
           TitleViewSet(a, m, t, s)

SpecCatalog == InitCatalog /\ [][NextCatalog]_vars

(* A catalogue that holds a category, a genre and a title *)
InitStocked ==
    /\ Directory
    /\ categories = Slugs
    /\ genres = Slugs
    /\ titles = {1}
    /\ nextTitle = 2
    /\ reviews = {}
    /\ nextReview = 1
    /\ comments = {}
    /\ nextComment = 1
    /\ inflight = EmptyBag

WriteMethods == {"PUT", "PATCH", "DELETE"}

(* the accounts that post reviews and comments *)
Posters == {Alice.id, Stan.id}

(* Review creation under concurrency: creates of alice and stan overlap,  *)
(* reviews are deleted by their authors, the administrator deletes titles *)
(* and adds new ones.                                                     *)
NextReviews ==
    \/ \E m \in {"POST", "DELETE"}, t \in TitleIds, s \in Slugs :
           TitleViewSet(Adam.id, m, t, s)
    \/ \E a \in Posters, t \in TitleIds : review_create(a, t)
    \/ \E q \in BagToSet(inflight) : review_perform_create(q)
    \/ \E a \in Posters, t \in TitleIds, i \in ReviewIds :
           review_detail(a, "DELETE", t, i)

SpecReviews == InitStocked /\ [][NextReviews]_vars

(* Moderation: alice and stan post reviews and comments on the stored *)
(* titles, one request at a time; every account tries to update and   *)
(* to delete them.                                                    *)
Accounts == Actors \ {Anonymous}

NextModeration ==
    \/ \E a \in Posters, t \in titles :
           inflight = EmptyBag /\ review_create(a, t)
    \/ \E q \in BagToSet(inflight) : review_perform_create(q)
    \/ \E a \in Accounts, m \in WriteMethods, t \in titles, i \in ReviewIds :
           review_detail(a, m, t, i)
    \/ \E a \in Posters, t \in titles, i \in ReviewIds : comment_create(a, t, i)
    \/ \E a \in Accounts, m \in WriteMethods, t \in titles, i \in ReviewIds,
          c \in CommentIds : comment_detail(a, m, t, i, c)

SpecModeration == InitStocked /\ [][NextModeration]_vars

(* Every resource, served to a caller without credentials, while the  *)
(* administrator posts and deletes reviews and comments, one request  *)
(* at a time.                                                         *)
Public == {Anonymous, Adam.id}

NextPublic ==
    \/ \E m \in ResMethods, s \in Slugs : CategoryViewSet(Anonymous, m, s)
    \/ \E m \in ResMethods, s \in Slugs : GenreViewSet(Anonymous, m, s)
    \/ \E m \in ResMethods, t \in TitleIds, s \in Slugs :
           TitleViewSet(Anonymous, m, t, s)
    \/ \E t \in TitleIds : review_list(Anonymous, t)
    \/ \E a \in Public, t \in TitleIds :
           inflight = EmptyBag /\ review_create(a, t)
    \/ \E q \in BagToSet(inflight) : review_perform_create(q)
    \/ \E m \in DetailMethods, t \in TitleIds, i \in ReviewIds :
           review_detail(Anonymous, m, t, i)
    \/ \E t \in TitleIds, i \in ReviewIds : review_detail(Adam.id, "DELETE", t, i)
    \/ \E t \in TitleIds, i \in ReviewIds : comment_list(Anonymous, t, i)
    \/ \E a \in Public, t \in TitleIds, i \in ReviewIds : comment_create(a, t, i)
    \/ \E m \in DetailMethods, t \in TitleIds, i \in ReviewIds, c \in CommentIds :
           comment_detail(Anonymous, m, t, i, c)
    \/ \E t \in TitleIds, i \in ReviewIds, c \in CommentIds :
           comment_detail(Adam.id, "DELETE", t, i, c)

SpecPublic == InitStocked /\ [][NextPublic]_vars

-----------------------------------------------------------------------------
(* Properties of the resources *)

(* C4: no two reviews share an author and a title (a review whose title    *)
(* was deleted has no title); the insert of a review create whose author   *)
(* already has a review on the title is answered 400 and adds no row, and  *)
(* otherwise is answered 201 and adds the one row, so of two creates in    *)
(* flight for one author and title one gets 201 and the other 400.         *)
(* Checked under SpecReviews.                                              *)
C4_OneReviewPerAuthorAndTitle ==
    [][/\ \A r1 \in reviews', r2 \in reviews' :
             (r1.author = r2.author /\ r1.title = r2.title /\ r1.title # 0)
             => r1 = r2
       /\ (resp'.op = "review_perform_create" /\ resp'.status # 404)
          => IF \E r \in reviews : r.author = resp'.actor /\ r.title = resp'.title
             THEN resp'.status = 400 /\ reviews' = reviews
             ELSE /\ resp'.status = 201
                  /\ reviews' = reviews \cup
                         {[id |-> resp'.target, title |-> resp'.title,
                           author |-> resp'.actor]}]_vars

(* one of two creates in flight for the same author and title has been *)
(* inserted, the other is still in flight                              *)
C4_Witness ==
    /\ resp.op = "review_perform_create"
    /\ resp.status = 201
    /\ BagIn([author |-> resp.actor, title |-> resp.title], inflight)

(* C6: a GET by a caller without credentials on a category, genre, title,  *)
(* review or comment passes the permission check; a create, update or      *)
(* delete by that caller is refused with 401 and changes no table.         *)
(* Checked under SpecPublic.                                               *)
C6_AnonymousReadOnly ==
    [][(/\ resp'.actor = Anonymous
        /\ resp'.kind \in {"category", "genre", "title", "review", "comment"})
       => IF resp'.method = "GET"
          THEN resp'.allowed /\ resp'.status \notin {401, 403}
          ELSE ~resp'.allowed /\ resp'.status = 401 /\ UNCHANGED resVars]_vars

(* a DELETE without credentials on a stored review was refused *)
C6_Witness ==
    /\ resp.actor = Anonymous
    /\ resp.op = "review_detail"
    /\ resp.method = "DELETE"
    /\ resp.status = 401
    /\ \E r \in reviews : r.id = resp.target /\ r.title = resp.title

(* the object a detail request was served on, and whether the actor wrote *)
(* it or moderates                                                        *)
Entitled(r) ==
    LET objs == IF r.kind = "review" THEN {x \in reviews : x.id = r.target}
                ELSE {x \in comments : x.id = r.target}
    IN  \/ \E o \in objs : o.author = r.actor
        \/ RoleOf(users, r.actor) \in {ADMIN, MODERATOR}

DetailWrite(r) ==
    /\ r.op \in {"review_detail", "comment_detail"}
    /\ r.actor # Anonymous
    /\ r.status # 404

(* C7 (the claim as stated): a PUT, PATCH or DELETE by an account on a     *)
(* stored review or comment passes the permission checks exactly when the  *)
(* account is the author or has role admin or moderator.                   *)
C7_UpdateDeleteByAuthorOrStaff ==
    [][(DetailWrite(resp') /\ resp'.method \in {"PUT", "PATCH", "DELETE"})
       => (resp'.allowed <=> Entitled(resp'))]_vars

(* C7 (amended): a PATCH or DELETE by an account on a stored review or     *)
(* comment passes the permission checks exactly when the account is the    *)
(* author or has role admin or moderator; a PUT is refused for every       *)
(* account.  Checked under SpecModeration.                                 *)
C7_PatchDeleteByAuthorOrStaff ==
    [][/\ (DetailWrite(resp') /\ resp'.method \in {"PATCH", "DELETE"})
          => (resp'.allowed <=> Entitled(resp'))
       /\ (DetailWrite(resp') /\ resp'.method = "PUT")
          => (~resp'.allowed /\ resp'.status = 403 /\ UNCHANGED resVars)]_vars

(* the moderator has deleted a review written by somebody else *)
C7_Witness ==
    /\ resp.op = "review_detail"
    /\ resp.method = "DELETE"
    /\ resp.actor = Mod.id
    /\ resp.status = 204

(* C8: a POST, PUT, PATCH or DELETE on a category, genre or title passes   *)
(* the permission check exactly when the actor is an account with is_staff *)
(* or with role admin; a refused request changes no table.  Checked under  *)
(* SpecCatalog.                                                            *)
C8_CatalogueWritesNeedAdmin ==
    [][(/\ resp'.kind \in {"category", "genre", "title"}
        /\ resp'.method \notin SAFE_METHODS)
       => /\ resp'.allowed <=>
                (/\ resp'.actor # Anonymous
                 /\ (IsStaff(users, resp'.actor) \/ RoleOf(users, resp'.actor) = ADMIN))
          /\ ~resp'.allowed => UNCHANGED resVars]_vars

(* the account with is_staff and role user has created a title *)
C8_Witness ==
    /\ resp.kind = "title"
    /\ resp.method = "POST"
    /\ resp.actor = Stan.id
    /\ resp.status = 201

=============================================================================
